---- MODULE Spec2Model ----
(***************************************************************************)
(* Event-study engine (src/src/eventstudy.py, class EventStudy).           *)
(*                                                                         *)
(* A table column is a function over the calendar positions; a cell is an  *)
(* option value: NaN (missing) or <<v>>.  The pandas fills (bfill / ffill  *)
(* with a limit), the column alignment, the index union and the numpy      *)
(* random choice are modelled by what they do, including the errors they   *)
(* raise.  The bootstrapped table `booted` is kept as what the code reads   *)
(* of it: its per-asset non-missing counts (up to the counts of the        *)
(* original Panel, which is all the loop condition compares) and the block *)
(* appended last.                                                          *)
(***************************************************************************)
EXTENDS Integers, Sequences, FiniteSets, TLC

\* ------------------------------------------------------------------ bounds
CalLen == 6        \* rows of the Panel calendar in the window model
MaxBack == 3       \* window start ranges over -MaxBack..0
MaxFwd == 2        \* window end ranges over 0..MaxFwd
MaxEvents == 2     \* events of asset "A" in the window model

\* ------------------------------------------------------------- primitives
NaN == <<>>
Some(v) == <<v>>
Val(x) == x[1]
NotNull(x) == x # NaN

AssetNames == {"A", "B"}

Abs(x) == IF x < 0 THEN -x ELSE x
Max2(x, y) == IF x >= y THEN x ELSE y
Min2(x, y) == IF x <= y THEN x ELSE y
SetMin(S) == CHOOSE x \in S : \A y \in S : x <= y
SetMax(S) == CHOOSE x \in S : \A y \in S : x >= y

\* pandas validates a fill limit before filling: limit < 1 raises ValueError
ValidLimit(limit) == limit >= 1

\* Series.bfill(limit): a missing cell takes the next valid cell's value when
\* that cell is at most `limit` rows below it
bfill(col, limit) ==
    [i \in DOMAIN col |->
        IF NotNull(col[i]) THEN col[i]
        ELSE LET J == {j \in DOMAIN col : j > i /\ NotNull(col[j])}
             IN IF J = {} THEN NaN
                ELSE IF SetMin(J) - i <= limit THEN col[SetMin(J)] ELSE NaN]

\* Series.ffill(limit): the mirror image, from the previous valid cell
ffill(col, limit) ==
    [i \in DOMAIN col |->
        IF NotNull(col[i]) THEN col[i]
        ELSE LET J == {j \in DOMAIN col : j < i /\ NotNull(col[j])}
             IN IF J = {} THEN NaN
                ELSE IF i - SetMax(J) <= limit THEN col[SetMax(J)] ELSE NaN]

\* Series.fillna(other): missing cells take the other column's cell
fillna(col, other) ==
    [i \in DOMAIN col |-> IF NotNull(col[i]) THEN col[i] ELSE other[i]]

\* column + d (NaN stays NaN)
AddTo(col, d) ==
    [i \in DOMAIN col |-> IF NotNull(col[i]) THEN Some(Val(col[i]) + d) ELSE NaN]

\* a set of integers as an increasing sequence (sort_index)
RECURSIVE SortedSeq(_)
SortedSeq(S) ==
    IF S = {} THEN <<>> ELSE <<SetMin(S)>> \o SortedSeq(S \ {SetMin(S)})

\* ------------------------------------------------------------------ state
VARIABLES
    pc,                \* which operation acted last
    data,              \* Engine Panel: asset -> calendar position -> cell
    events,            \* Engine EventSet: asset -> set of event positions
    window,            \* <<start, end>>
    event_date_index,  \* 0 or 1
    res,               \* what the last operation returned (or raised)
    arg_data,          \* __init__ argument `data`: kind, index, columns
    arg_events,        \* __init__ argument `events`: kind, rows, columns
    self,              \* the constructed Engine's aligned tables, or NoEngine
    warned,            \* whether warnings.warn was called
    df,                \* event_weighted_mean argument: offset -> column -> cell
    block_size,        \* bootstrap_wo_events: the argument (0 for None), then resolved
    boot_from,         \* the event-free pool: its rows and cells
    rnd_left,          \* blocks of rnd_choice not yet concatenated
    p,                 \* start offset of the block appended last
    booted_count       \* booted.count() per asset, kept up to data.count()

engineVars == <<data, events, window, event_date_index>>
ctorVars == <<arg_data, arg_events, self, warned>>
bootVars == <<block_size, boot_from, rnd_left, p, booted_count>>
vars == <<pc, data, events, window, event_date_index, res,
          arg_data, arg_events, self, warned, df,
          block_size, boot_from, rnd_left, p, booted_count>>

NoEngine == [exists |-> FALSE]
EngineIdle ==
    /\ data = <<>> /\ events = <<>> /\ window = <<0, 0>> /\ event_date_index = 0
CtorIdle ==
    /\ arg_data = <<>> /\ arg_events = <<>> /\ self = NoEngine /\ warned = FALSE
NoDraw == 0 - 1
BootIdle ==
    /\ block_size = 0 /\ boot_from = <<>> /\ rnd_left = 0 /\ p = NoDraw
    /\ booted_count = <<>>

Assets == DOMAIN data
Cal == IF Assets = {} THEN {} ELSE DOMAIN data[CHOOSE a \in Assets : TRUE]

\* ------------------------------------------------------ mark_event_windows
\* events.reindex_like(data).notnull().replace(False, nan): True at the event
\* rows, missing elsewhere
EventsReidx(a) ==
    [i \in Cal |-> IF i \in events[a] THEN Some(1) ELSE NaN]

AdjEnd == window[2] - event_date_index

\* mutant: the two fill limits swapped
MaskConfusing_LimitsSwapped(a) ==
    LET er == EventsReidx(a)
        b == bfill(er, AdjEnd)
        f == ffill(er, -window[1])
    IN [i \in Cal |-> NotNull(b[i]) /\ NotNull(f[i]) /\ ~NotNull(er[i])]

MaskConfusing(a) ==
    LET er == EventsReidx(a)
        b == bfill(er, -window[1])
        f == ffill(er, AdjEnd)
    IN [i \in Cal |-> NotNull(b[i]) /\ NotNull(f[i]) /\ ~NotNull(er[i])]

RawMask(a) ==
    LET filled == ffill(bfill(EventsReidx(a), -window[1]), AdjEnd)
    IN [i \in Cal |-> NotNull(filled[i])]

mark_event_windows(excl_ambig) ==
    IF ~ValidLimit(-window[1]) \/ ~ValidLimit(AdjEnd)
    THEN [ok |-> FALSE, err |-> "ValueError"]
    ELSE [ok |-> TRUE,
          mask |-> [a \in Assets |->
                      LET confusing == MaskConfusing(a)
                          raw == RawMask(a)
                      IN [i \in Cal |->
                            IF excl_ambig /\ confusing[i] THEN FALSE ELSE raw[i]]]]

\* ------------------------------------------------------------------ pivot
\* the two parallel tables grown around the events, with the two counters
PivotStart ==
    [periods |-> [a \in Assets |->
                    [i \in Cal |-> IF i \in events[a]
                                   THEN Some(event_date_index) ELSE NaN]],
     evt_dates |-> [a \in Assets |->
                    [i \in Cal |-> IF i \in events[a] THEN Some(i) ELSE NaN]],
     count_bef |-> -1,
     count_aft |-> IF event_date_index = 1 THEN 1 ELSE 0]

GrowBefore(st) ==
    IF st.count_bef >= window[1]
    THEN [st EXCEPT
            !.periods = [a \in Assets |->
                fillna(st.periods[a], bfill(AddTo(st.periods[a], -1), 1))],
            !.evt_dates = [a \in Assets |-> bfill(st.evt_dates[a], 1)],
            !.count_bef = st.count_bef - 1]
    ELSE st

GrowAfter(st) ==
    IF st.count_aft <= window[2]
    THEN [st EXCEPT
            !.periods = [a \in Assets |->
                fillna(st.periods[a], ffill(AddTo(st.periods[a], 1), 1))],
            !.evt_dates = [a \in Assets |-> ffill(st.evt_dates[a], 1)],
            !.count_aft = st.count_aft + 1]
    ELSE st

RECURSIVE Grow(_, _)
Grow(st, n) == IF n = 0 THEN st ELSE Grow(GrowAfter(GrowBefore(st)), n - 1)

\* mutant: the shorter side of the window bounds the loop
GrowIterations_Min == Min2(Abs(window[1]), Abs(window[2]))

GrowIterations == Max2(Abs(window[1]), Abs(window[2]))

\* rows of the stacked (evt_dt, d_periods, val) frame that survive the mask:
\* <<asset, event date, offset, calendar position>>
PivotEntries(mask) ==
    UNION {{<<a, Val(g.evt_dates[a][i]), Val(g.periods[a][i]), i>> :
                <<a, i>> \in {x \in Assets \X Cal :
                    mask[x[1]][x[2]] /\ NotNull(g.evt_dates[x[1]][x[2]])}} :
           g \in {Grow(PivotStart, GrowIterations)}}

\* the unstacked frame of the entries E, rows cut to the window, sorted
PivotFrame(E) ==
    LET rows == {x[3] : x \in E} \cap (window[1]..window[2])
        cols == {<<x[1], x[2]>> : x \in E}
    IN [ok |-> TRUE,
        index |-> SortedSeq(rows),
        columns |-> cols,
        cell |-> [c \in cols |-> [k \in rows |->
            LET H == {x \in E : x[1] = c[1] /\ x[2] = c[2] /\ x[3] = k}
            IN IF H = {} THEN NaN
               ELSE data[c[1]][(CHOOSE x \in H : TRUE)[4]]]]]

pivot ==
    LET m == mark_event_windows(TRUE)
    IN IF ~m.ok THEN m
       ELSE CHOOSE r \in {PivotFrame(E) : E \in {PivotEntries(m.mask)}} : TRUE

\* ------------------------------------------------------------- operations
\* Panel values are the calendar positions (values 1..n on days 1..n)
PanelColumn(missing) ==
    [i \in 1..CalLen |-> IF i \in missing THEN NaN ELSE Some(i)]

\* the Panel of the window model misses at most one value
MissingPatterns == {{}} \cup {{i} : i \in 1..CalLen}

Init ==
    /\ pc = "constructed"
    /\ \E mA \in MissingPatterns,
          eA \in {e \in SUBSET (1..CalLen) : Cardinality(e) <= MaxEvents},
          eB \in {{}} \cup {{i} : i \in 1..CalLen} :
         \/ /\ data = [a \in {"A"} |-> PanelColumn(mA)]
            /\ events = [a \in {"A"} |-> eA]
            /\ eB = {}
         \/ /\ data = [a \in AssetNames |-> PanelColumn({})]
            /\ events = [a \in AssetNames |-> IF a = "A" THEN eA ELSE eB]
            /\ mA = {}
    /\ window \in ((-MaxBack)..0) \X (0..MaxFwd)
    /\ event_date_index \in {0, 1}
    /\ res = [ok |-> TRUE]
    /\ CtorIdle /\ BootIdle
    /\ df = <<>>

MarkEventWindows(excl_ambig) ==
    /\ pc = "constructed"
    /\ pc' = IF excl_ambig THEN "marked_excl" ELSE "marked_all"
    /\ res' = mark_event_windows(excl_ambig)
    /\ UNCHANGED <<engineVars, ctorVars, df, bootVars>>

Pivot ==
    /\ pc = "constructed"
    /\ pc' = "pivoted"
    /\ res' = pivot
    /\ UNCHANGED <<engineVars, ctorVars, df, bootVars>>

Next ==
    \/ MarkEventWindows(TRUE)
    \/ MarkEventWindows(FALSE)
    \/ Pivot

Spec == Init /\ [][Next]_vars

\* ---------------------------------------------------------------- __init__
TsMax == 2          \* timestamps of the constructor model are 1..TsMax
CtorAssets == {"A", "B", "C"}

\* data.index.union(events.dropna(how="all").index): the rows of `events`
\* with at least one non-missing value, joined to the Panel's index
\* mutant: all-missing rows are not dropped
EventRowsKept_NoDropna(ev) == DOMAIN ev.rows

EventRowsKept(ev) == {t \in DOMAIN ev.rows : ev.rows[t] # {}}
IndexUnion(d, ev) == d.index \cup EventRowsKept(ev)

\* len(union) > len(data)
AlignmentViolated(d, ev) == Cardinality(IndexUnion(d, ev)) > Cardinality(d.index)

\* the Series / DataFrame dispatch: the events table as a frame
EventsAsFrame(d, ev) ==
    IF ev.kind = "Series"
    THEN \* one column, renamed to (or repeated under) the Panel's columns
         [kind |-> "DataFrame", columns |-> d.columns,
          rows |-> [t \in DOMAIN ev.rows |->
                      IF ev.rows[t] = {} THEN {} ELSE d.columns]]
    ELSE ev

WarnsOnColumns(d, ev) ==
    /\ d.kind = "DataFrame" /\ ev.kind = "DataFrame"
    /\ Cardinality(d.columns) > Cardinality(ev.columns)

\* events.align(data, axis=1, join="inner")
AlignedColumns(d, ev) == d.columns \cap EventsAsFrame(d, ev).columns

Construct ==
    /\ pc = "args"
    /\ IF AlignmentViolated(arg_data, arg_events)
       THEN /\ pc' = "ValueError"
            /\ UNCHANGED <<self, warned>>
       ELSE /\ pc' = "constructed"
            /\ warned' = WarnsOnColumns(arg_data, arg_events)
            /\ self' = [exists |-> TRUE,
                        data_index |-> arg_data.index,
                        data_columns |-> AlignedColumns(arg_data, arg_events),
                        events_columns |-> AlignedColumns(arg_data, arg_events),
                        events_rows |->
                            [t \in DOMAIN arg_events.rows |->
                                EventsAsFrame(arg_data, arg_events).rows[t]
                                    \cap AlignedColumns(arg_data, arg_events)]]
    /\ UNCHANGED <<engineVars, res, arg_data, arg_events, df, bootVars>>

Timestamps == 1..TsMax
TableShapes ==
    {[kind |-> "Series", columns |-> {c}] : c \in CtorAssets}
        \cup {[kind |-> "DataFrame", columns |-> cs] : cs \in SUBSET CtorAssets \ {{}}}

InitCtor ==
    /\ pc = "args"
    /\ \E sh \in TableShapes, idx \in SUBSET Timestamps \ {{}} :
         arg_data = [kind |-> sh.kind, columns |-> sh.columns, index |-> idx]
    /\ \E sh \in TableShapes, idx \in SUBSET Timestamps :
         \E nonnull \in SUBSET idx :
            arg_events = [kind |-> sh.kind, columns |-> sh.columns,
                          rows |-> [t \in idx |->
                                      IF t \in nonnull THEN sh.columns ELSE {}]]
    /\ self = NoEngine /\ warned = FALSE
    /\ EngineIdle /\ BootIdle /\ res = <<>> /\ df = <<>>

NextCtor == Construct

SpecCtor == InitCtor /\ [][NextCtor]_vars

\* ------------------------------------------------------ event_weighted_mean
MaxAggEvents == 2   \* events per asset in the aggregated table
AggValues == {1, 4}

RECURSIVE SumOver(_, _)
SumOver(S, f) ==
    IF S = {} THEN 0
    ELSE LET x == CHOOSE y \in S : TRUE IN f[x] + SumOver(S \ {x}, f)

\* exact fractions <<numerator, denominator>>
Frac(n, d) == <<n, d>>
FracAdd(x, y) == Frac(x[1] * y[2] + y[1] * x[2], x[2] * y[2])

DfAssets(row) == {c[1] : c \in DOMAIN row}
AssetCols(row, a) == {c \in DOMAIN row : c[1] = a /\ NotNull(row[c])}

\* df.count(axis=1, level=0)
AssetCount(row, a) == Cardinality(AssetCols(row, a))

\* df.mean(axis=1, level=0): NaN for an asset with no value in the row
AssetMean(row, a) ==
    IF AssetCount(row, a) = 0 THEN NaN
    ELSE Some(Frac(SumOver(AssetCols(row, a), [c \in DOMAIN row |-> Val(row[c])]),
                   AssetCount(row, a)))

\* mutant: the asset mean is not multiplied by the asset's count
AssetTerm_NoMul(row, a) ==
    LET total == SumOver(DfAssets(row), [b \in DfAssets(row) |-> AssetCount(row, b)])
    IN IF AssetMean(row, a) = NaN THEN NaN
       ELSE LET m == Val(AssetMean(row, a))
            IN Some(Frac(m[1], m[2] * total))

\* .mul(count).div(count.sum(axis=1)): NaN stays NaN
AssetTerm(row, a) ==
    LET total == SumOver(DfAssets(row), [b \in DfAssets(row) |-> AssetCount(row, b)])
    IN IF AssetMean(row, a) = NaN THEN NaN
       ELSE LET m == Val(AssetMean(row, a))
            IN Some(Frac(m[1] * AssetCount(row, a), m[2] * total))

RECURSIVE FracSumSkipNa(_, _)
FracSumSkipNa(S, f) ==
    IF S = {} THEN Frac(0, 1)
    ELSE LET x == CHOOSE y \in S : TRUE
         IN IF f[x] = NaN THEN FracSumSkipNa(S \ {x}, f)
            ELSE FracAdd(Val(f[x]), FracSumSkipNa(S \ {x}, f))

\* .sum(axis=1), which skips NaN
WeightedMeanRow(row) ==
    FracSumSkipNa(DfAssets(row), [a \in DfAssets(row) |-> AssetTerm(row, a)])

event_weighted_mean(d) == [t \in DOMAIN d |-> WeightedMeanRow(d[t])]

EventWeightedMean ==
    /\ pc = "pivot_table"
    /\ pc' = "aggregated"
    /\ res' = event_weighted_mean(df)
    /\ UNCHANGED <<engineVars, ctorVars, df, bootVars>>

AggColumns(nA, nB) ==
    {<<"A", j>> : j \in 1..nA} \cup {<<"B", j>> : j \in 1..nB}

InitAgg ==
    /\ pc = "pivot_table"
    /\ \E nA \in 1..MaxAggEvents, nB \in 1..MaxAggEvents :
         df \in [{0} -> [AggColumns(nA, nB) -> {NaN} \cup {Some(v) : v \in AggValues}]]
    /\ EngineIdle /\ CtorIdle /\ BootIdle /\ res = <<>>

NextAgg == EventWeightedMean

SpecAgg == InitAgg /\ [][NextAgg]_vars

\* ------------------------------------------------------ bootstrap_wo_events
BootLen == 4        \* rows of the Panel in the bootstrap model
MaxBlock == 3       \* block_size argument ranges over None, 1..MaxBlock
MaxBootEvents == 2  \* events of asset "A" in the bootstrap model
MaxBootMissing == 2 \* missing Panel values of asset "A" in the bootstrap model
DefaultMaxBlock == 10

ISqrt(n) == CHOOSE k \in 0..n : k * k <= n /\ (k + 1) * (k + 1) > n

\* block_size = min(10, int(sqrt(len(data)))) when None (written 0)
ResolvedBlockSize(arg) ==
    IF arg = 0 THEN Min2(DefaultMaxBlock, ISqrt(Cardinality(Cal))) ELSE arg

\* int(ceil(len(data) / block_size))
NBlocks(bs) == (Cardinality(Cal) + bs - 1) \div bs

\* data.count()
DataCount(a) == Cardinality({i \in Cal : NotNull(data[a][i])})

\* data.where(~mask).dropna(how="all"): cells inside a window become missing,
\* rows with no cell left are dropped
BootFrom(mask) ==
    LET cell == [a \in Assets |-> [i \in Cal |->
                    IF mask[a][i] THEN NaN ELSE data[a][i]]]
    IN [rows |-> SortedSeq({i \in Cal : \E a \in Assets : NotNull(cell[a][i])}),
        cell |-> cell]

\* mutant: the widest mask replaced by the ambiguity-excluded one
BootMask_ExclAmbig == mark_event_windows(TRUE)

\* self.mark_event_windows(excl_ambig=False)
BootMask == mark_event_windows(FALSE)

\* mutant: the block size is not subtracted
DrawCount_NoBlock(len, bs) == len

\* len(np.arange(len(boot_from) - block_size)): how many start offsets a draw
\* can give; np.random.choice raises ValueError when there is none
DrawCount(len, bs) == Max2(len - bs, 0)

DrawRange == 0..(DrawCount(Len(boot_from.rows), block_size) - 1)

\* boot_from.iloc[q:q+block_size]: the original rows of the block
BlockRows(q) ==
    {boot_from.rows[j] : j \in (q + 1)..Min2(q + block_size, Len(boot_from.rows))}

BlockCount(q, a) ==
    Cardinality({i \in BlockRows(q) : NotNull(boot_from.cell[a][i])})

\* booted.count() after appending block q
Appended(q) ==
    [a \in Assets |-> Min2(booted_count[a] + BlockCount(q, a), DataCount(a))]

\* booted.count().lt(self.data.count()).any()
Short(cnt) == \E a \in Assets : cnt[a] < DataCount(a)

BootStart ==
    /\ pc = "engine"
    /\ block_size' = ResolvedBlockSize(block_size)
    /\ LET m == BootMask
           pool == BootFrom(m.mask)
       IN IF ~m.ok
          THEN /\ pc' = "ValueError"
               /\ UNCHANGED <<boot_from, rnd_left>>
          ELSE /\ boot_from' = pool
               /\ IF DrawCount(Len(pool.rows), block_size') = 0
                  THEN \* np.random.choice of an empty range raises
                       /\ pc' = "ValueError"
                       /\ UNCHANGED rnd_left
                  ELSE /\ pc' = "concat"
                       /\ rnd_left' = NBlocks(block_size') * 2
    /\ UNCHANGED <<engineVars, ctorVars, df, res, p, booted_count>>

ConcatBlock(q) ==
    /\ pc = "concat"
    /\ q \in DrawRange
    /\ p' = q
    /\ booted_count' = Appended(q)
    /\ rnd_left' = rnd_left - 1
    /\ pc' = IF rnd_left' = 0 THEN "while" ELSE "concat"
    /\ UNCHANGED <<engineVars, ctorVars, df, res, block_size, boot_from>>

TopUp(q) ==
    /\ pc = "while"
    /\ Short(booted_count)
    /\ q \in DrawRange
    /\ p' = q
    /\ booted_count' = Appended(q)
    /\ UNCHANGED <<pc, engineVars, ctorVars, df, res, block_size, boot_from, rnd_left>>

BootReturn ==
    /\ pc = "while"
    /\ ~Short(booted_count)
    /\ pc' = "returned"
    /\ res' = [ok |-> TRUE,
               n_events |-> [a \in Assets |-> Cardinality(events[a])],
               window |-> window,
               event_date_index |-> event_date_index]
    /\ UNCHANGED <<engineVars, ctorVars, df, bootVars>>

BootColumn(missing) ==
    [i \in 1..BootLen |-> IF i \in missing THEN NaN ELSE Some(i)]

InitBoot ==
    /\ pc = "engine"
    /\ \E mA \in {m \in SUBSET (1..BootLen) : Cardinality(m) <= MaxBootMissing},
          eA \in {e \in SUBSET (1..BootLen) : Cardinality(e) <= MaxBootEvents} :
         \/ /\ data = [a \in {"A"} |-> BootColumn(mA)]
            /\ events = [a \in {"A"} |-> eA]
         \/ /\ data = [a \in AssetNames |->
                        IF a = "A" THEN BootColumn(mA) ELSE BootColumn({})]
            /\ events = [a \in AssetNames |-> IF a = "A" THEN eA ELSE {}]
    /\ window = <<-1, 1>>
    /\ event_date_index \in {0, 1}
    /\ block_size \in 0..MaxBlock
    /\ boot_from = <<>> /\ rnd_left = 0 /\ p = NoDraw
    /\ booted_count = [a \in Assets |-> 0]
    /\ res = <<>> /\ CtorIdle /\ df = <<>>

NextBoot ==
    \/ BootStart
    \/ \E q \in 0..BootLen : ConcatBlock(q)
    \/ \E q \in 0..BootLen : TopUp(q)
    \/ BootReturn

SpecBoot == InitBoot /\ [][NextBoot]_vars

\* every start offset keeps being drawn: the draws are uniform and independent
FairSpecBoot ==
    /\ SpecBoot
    /\ WF_vars(BootReturn)
    /\ \A q \in 0..BootLen : SF_vars(ConcatBlock(q)) /\ SF_vars(TopUp(q))

\* ------------------------------------------------------------------ claims
WStart == window[1]
WEnd == window[2]
WEndAdj == window[2] - event_date_index
WithinBefore(a, i) == \E t \in events[a] : t > i /\ t - i <= -WStart
WithinAfter(a, i) == \E t \in events[a] : t < i /\ i - t <= WEndAdj
TrueSlots(m, a) == {i \in Cal : m[a][i]}
Contiguous(S) == \A i \in Cal : (S # {} /\ SetMin(S) <= i /\ i <= SetMax(S)) => i \in S

\* C1: with ambiguity exclusion the returned mask is false at every non-event
\* slot that is within -start periods before one event and within
\* end - event_date_index periods after another event of the same asset; for an
\* asset with two events at most -start + end apart the overlap of the first
\* event's post-window and the second's pre-window is false and fewer than
\* 2 * (end - start + 1) slots are true.
C1_AmbiguousSlotsExcluded ==
    (pc = "marked_excl" /\ res.ok) =>
        \A a \in Assets :
            /\ \A i \in Cal :
                  (i \notin events[a] /\ WithinBefore(a, i) /\ WithinAfter(a, i))
                      => ~res.mask[a][i]
            /\ \A t1, t2 \in events[a] :
                  (events[a] = {t1, t2} /\ t1 < t2 /\ t2 - t1 <= -WStart + WEnd) =>
                      /\ \A i \in ((t1 + 1)..(t1 + WEndAdj)) \cap ((t2 + WStart)..(t2 - 1)) :
                            ~res.mask[a][i]
                      /\ Cardinality(TrueSlots(res.mask, a)) < 2 * (WEnd - WStart + 1)

C1_Witness ==
    /\ pc = "marked_excl" /\ res.ok
    /\ \E t1, t2 \in events["A"] :
          /\ events["A"] = {t1, t2} /\ t1 < t2 /\ t2 - t1 <= -WStart + WEnd
          /\ ((t1 + 1)..(t1 + WEndAdj)) \cap ((t2 + WStart)..(t2 - 1)) # {}
          /\ \E i \in Cal : i \notin events["A"] /\ res.mask["A"][i]

\* C2: for every window and event_date_index, an asset with a single event
\* gets exactly end - start + 1 contiguous true slots around the event (fewer
\* only when cut off by the first or last calendar row), and the mask is the
\* same with and without ambiguity exclusion.
C2_IsolatedEventWindow ==
    (pc \in {"marked_excl", "marked_all"} /\ res.ok) =>
        \A a \in Assets : \A t \in events[a] :
            events[a] = {t} =>
                /\ LET T == TrueSlots(res.mask, a)
                   IN /\ t \in T /\ Contiguous(T)
                      /\ \/ Cardinality(T) = WEnd - WStart + 1
                         \/ /\ Cardinality(T) < WEnd - WStart + 1
                            /\ (1 \in T \/ SetMax(Cal) \in T)
                /\ res.mask[a] = mark_event_windows(pc = "marked_all").mask[a]

\* the event a true slot of the ambiguity-excluded mask belongs to
OwnerEvent(a, i) ==
    IF i \in events[a] THEN i
    ELSE IF WithinBefore(a, i) THEN SetMin({t \in events[a] : t > i})
    ELSE SetMax({t \in events[a] : t < i})

HasCell(tbl, c, k) ==
    /\ c \in tbl.columns
    /\ k \in DOMAIN tbl.cell[c]
    /\ NotNull(tbl.cell[c][k])

\* C3: for every window (asymmetric ones included) and any number of events,
\* every slot the ambiguity-excluded mask marks true and where the Panel has a
\* value appears in the pivot's output, in the column (asset, event) of the event
\* whose window the slot belongs to, at the slot's relative offset.
C3_PivotKeepsEveryWindowValue ==
    (pc = "pivoted" /\ res.ok) =>
        \A a \in Assets : \A i \in Cal :
            (mark_event_windows(TRUE).mask[a][i] /\ NotNull(data[a][i])) =>
                LET t == OwnerEvent(a, i)
                    k == i - t + event_date_index
                IN /\ HasCell(res, <<a, t>>, k)
                   /\ res.cell[<<a, t>>][k] = data[a][i]

\* C4: one asset with one event at position t, event_date_index = 0, a window
\* start < 0 < end inside the calendar and no missing value in it: the pivot has
\* exactly the column (asset, t), indexed by start..end in increasing order,
\* holding the Panel's value at t + k at offset k.
C4_SingleEventPivot ==
    (/\ pc = "pivoted" /\ Assets = {"A"} /\ event_date_index = 0
     /\ WStart < 0 /\ 0 < WEnd) =>
        \A t \in events["A"] :
            (/\ events["A"] = {t}
             /\ t + WStart >= 1 /\ t + WEnd <= SetMax(Cal)
             /\ \A i \in (t + WStart)..(t + WEnd) : NotNull(data["A"][i])) =>
                /\ res.ok
                /\ res.columns = {<<"A", t>>}
                /\ res.index = [j \in 1..(WEnd - WStart + 1) |-> WStart + j - 1]
                /\ \A k \in WStart..WEnd :
                      res.cell[<<"A", t>>][k] = Some(t + k)

C4_Witness ==
    /\ pc = "pivoted" /\ Assets = {"A"} /\ event_date_index = 0
    /\ window = <<-2, 2>> /\ events["A"] = {3}
    /\ res.ok
    /\ res.index = <<-2, -1, 0, 1, 2>>
    /\ \A k \in -2..2 : res.cell[<<"A", 3>>][k] = Some(3 + k)

\* C5: construction raises exactly when some timestamp carrying an event is
\* absent from the Panel calendar, and then nothing is constructed and nothing
\* else (no warning) has happened.
C5_AlignmentCheck ==
    (pc \in {"ValueError", "constructed"} /\ arg_data # <<>>) =>
        /\ (pc = "ValueError") <=>
              (\E t \in DOMAIN arg_events.rows :
                  arg_events.rows[t] # {} /\ t \notin arg_data.index)
        /\ (pc = "ValueError") => (self = NoEngine /\ ~warned)
        /\ (pc = "constructed") => self.exists

C5_Witness ==
    /\ pc = "ValueError" /\ arg_data # <<>>
    /\ \E t \in DOMAIN arg_events.rows :
          arg_events.rows[t] # {} /\ t \notin arg_data.index
    /\ \E t \in DOMAIN arg_events.rows : t \in arg_data.index
    /\ self = NoEngine

\* C9: a multi-asset Panel and a multi-asset EventSet with different asset
\* sets construct an Engine over exactly the intersection of the asset sets, and
\* a warning is emitted whenever the asset sets differ.
C9_ColumnMismatchWarns ==
    (/\ pc = "constructed" /\ arg_data # <<>>
     /\ arg_data.kind = "DataFrame" /\ arg_events.kind = "DataFrame"
     /\ arg_data.columns # arg_events.columns) =>
        /\ self.exists
        /\ self.data_columns = arg_data.columns \cap arg_events.columns
        /\ self.events_columns = arg_data.columns \cap arg_events.columns
        /\ warned

AllCells(row) == {c \in DOMAIN row : NotNull(row[c])}

\* C6: at every offset with at least one value the weighted mean is the sum over
\* assets of (asset mean * asset count) over the sum of the counts, that is the
\* sum of all non-missing cells over their number; an asset with no value at the
\* offset adds nothing and does not make the result missing.
C6_EventWeightedMean ==
    (pc = "aggregated") =>
        \A t \in DOMAIN df :
            AllCells(df[t]) # {} =>
                /\ res[t] # NaN
                /\ res[t][2] # 0
                /\ res[t][1] * Cardinality(AllCells(df[t]))
                      = res[t][2] * SumOver(AllCells(df[t]),
                                            [c \in DOMAIN df[t] |-> Val(df[t][c])])

C6_Witness ==
    /\ pc = "aggregated"
    /\ df[0] = (<<"A", 1>> :> Some(1)) @@ (<<"A", 2>> :> Some(1)) @@ (<<"B", 1>> :> Some(4))
    /\ res[0][1] = 2 * res[0][2]

C6_WitnessEmptyAsset ==
    /\ pc = "aggregated"
    /\ \E c \in DOMAIN df[0] : c[1] = "B"
    /\ AssetCount(df[0], "B") = 0 /\ AssetCount(df[0], "A") = 2

\* the window of an event without ambiguity exclusion, by distances
InAnyWindow(a, i) ==
    \E t \in events[a] : t + WStart <= i /\ i <= t + WEndAdj
EventFreeRows == {i \in Cal : \E a \in Assets : NotNull(data[a][i]) /\ ~InAnyWindow(a, i)}

\* C7: no non-missing value of an appended block (an initial block or a top-up
\* block) comes from a timestamp inside one of that asset's event windows
\* computed without ambiguity exclusion.
C7_NoValueFromEventWindow ==
    (p # NoDraw) =>
        \A a \in Assets : \A i \in BlockRows(p) :
            NotNull(boot_from.cell[a][i]) =>
                (boot_from.cell[a][i] = data[a][i] /\ ~InAnyWindow(a, i))

C7_Witness ==
    /\ pc = "while" /\ p # NoDraw /\ Short(booted_count)
    /\ \E a \in Assets : \E i \in Cal :
          i \notin events[a] /\ WithinBefore(a, i) /\ WithinAfter(a, i)
    /\ \E a \in Assets : \E i \in BlockRows(p) : NotNull(boot_from.cell[a][i])

\* C8: with a block size larger than the event-free pool the call raises
\* before any block is drawn: no block is appended, the loop is not entered and
\* nothing is returned.
C8_BlockLargerThanPoolFails ==
    (pc # "engine" /\ block_size > Cardinality(EventFreeRows)) =>
        /\ pc = "ValueError"
        /\ p = NoDraw /\ rnd_left = 0
        /\ \A a \in Assets : booted_count[a] = 0

C8_Witness ==
    /\ pc = "ValueError" /\ mark_event_windows(FALSE).ok
    /\ \A a \in Assets : \A i \in Cal : NotNull(data[a][i])
    /\ Cardinality(EventFreeRows) > 0
    /\ block_size > Cardinality(EventFreeRows)

\* C10: whenever the event-free pool has more rows than block_size the call
\* eventually returns under fair draws, with every asset's non-missing count at
\* least the original Panel's.  As a property of single states: in the top-up
\* loop every asset still short of its original count has a start offset whose
\* block adds a value for it (otherwise no sequence of draws ends the loop).
C10_BootstrapReturns ==
    (pc = "while" /\ Len(boot_from.rows) > block_size) =>
        \A a \in Assets :
            booted_count[a] < DataCount(a) =>
                \E q \in DrawRange : BlockCount(q, a) > 0

\* the same as a temporal property of FairSpecBoot
BootstrapEventuallyReturns ==
    (pc \in {"concat", "while"} /\ Len(boot_from.rows) > block_size)
        ~> (pc = "returned" /\ ~Short(booted_count))

====
